---------------------------- MODULE Spec2Model ----------------------------
(***************************************************************************)
(* A model of Kronos (src/main.py): a command-line tool that signs in to   *)
(* the Timeular API, fetches one day's time entries and the activity       *)
(* catalog, sums the minutes per activity, renders and saves an image, and *)
(* inserts a link to that image under the "# Timeular" heading of the      *)
(* day's Obsidian note.                                                    *)
(*                                                                         *)
(* Three specifications share the variables:                               *)
(*   Spec      one run of main(), stage by stage;                          *)
(*   SpecAgg   the aggregation of create_visualization_of_daily_activities *)
(*             applied to bounded entry lists and catalogs;                *)
(*   SpecNote  insert_image_into_obsidian_note invoked repeatedly on one   *)
(*             vault.                                                      *)
(*                                                                         *)
(* Representation.                                                         *)
(*  - A text file is a sequence of tokens, each token a string: the        *)
(*    heading text, an image-link text, a newline, a blank, other text.    *)
(*    No token is a concatenation of other tokens, so two files are the    *)
(*    same text iff they are the same token sequence.                      *)
(*  - A timestamp string "YYYY-MM-DDTHH:MM:SS[.f]Z" is a record            *)
(*    [day, sec, frac]: the day number, the second of the day and the      *)
(*    digits after the point (<< >> when there is no point).               *)
(*  - A float number of minutes m is held exactly, as the integer 60 * m   *)
(*    (a number of seconds); float rounding is not modelled.               *)
(***************************************************************************)
EXTENDS Integers, Sequences, FiniteSets, TLC

VARIABLES
    pc,         \* position of main(): the stage to run next
    date,       \* args.date, validated "YYYY-MM-DD"
    vault,      \* os.environ.get("OBSIDIAN_VAULT"): "unset", "empty" or "set"
    fs,         \* the vault's files for this date: path -> content or Absent
    token,      \* the bearer token held by main(), NoValue before sign-in
    activities, \* the time entries returned by fetch_activities
    details,    \* the catalog returned by fetch_activity_names_and_colors
    agg,        \* labels, colors, durations and total computed from them
    err,        \* the exception that ended the run, "none" while there is none
    exitCode,   \* the process's exit status, NoExit while it runs
    log,        \* history: the stages started, in order
    writes,     \* history: the files written, in order
    fs0,        \* history: the files before the latest invocation / the run
    outcomes    \* history: how each Note Updater invocation of SpecNote ended

vars == <<pc, date, vault, fs, token, activities, details, agg, err, exitCode,
          log, writes, fs0, outcomes>>

-----------------------------------------------------------------------------
(* Bounds of the model.                                                    *)

MaxEntries == 3
MaxRunEntries == 2
MaxFileLen == 4
MaxCalls == 2

-----------------------------------------------------------------------------
(* Values.                                                                 *)

NoValue == "NoValue"
NoExit == -1
Absent == <<"<absent>">>

Range(s) == {s[i] : i \in 1..Len(s)}

SeqsUpTo(S, n) == UNION {[1..k -> S] : k \in 0..n}

RECURSIVE SumSeq(_)
SumSeq(s) == IF s = <<>> THEN 0 ELSE Head(s) + SumSeq(Tail(s))

-----------------------------------------------------------------------------
(* Timestamps and elapsed time (main.py 87-99, 173-175).                   *)

SecondsPerDay == 86400

\* pad_isoformat: a fraction of fewer than 3 digits is padded with zeros; a
\* timestamp without a point is returned as it is.
RECURSIVE PadDigits(_)
PadDigits(digits) ==
    IF Len(digits) < 3 THEN PadDigits(Append(digits, 0)) ELSE digits

pad_isoformat(timestamp) ==
    IF timestamp.frac # <<>>
        THEN [timestamp EXCEPT !.frac = PadDigits(timestamp.frac)]
        ELSE timestamp

\* datetime.fromisoformat: the instant, in milliseconds since day 0.
fromisoformat(timestamp) ==
    LET f == timestamp.frac
        millis == IF f = <<>> THEN 0 ELSE f[1] * 100 + f[2] * 10 + f[3]
    IN  (timestamp.day * SecondsPerDay + timestamp.sec) * 1000 + millis

\* timedelta.seconds of a difference of delta milliseconds: a timedelta is
\* normalised to (days, seconds in 0..86399, microseconds) and .seconds is
\* only its middle component.
timedelta_seconds(delta) == (delta \div 1000) % SecondsPerDay

\* Line 175: duration = (stop_time - start_time).seconds / 60, held as 60 * duration.
EntryDuration(activity) ==
    LET start_time == fromisoformat(pad_isoformat(activity.startedAt))
        stop_time == fromisoformat(pad_isoformat(activity.stoppedAt))
    IN  timedelta_seconds(stop_time - start_time)

\* What the entry really spans: stoppedAt - startedAt truncated to whole
\* seconds, as a number of seconds (60 * minutes).
ElapsedSeconds(activity) ==
    (fromisoformat(pad_isoformat(activity.stoppedAt))
        - fromisoformat(pad_isoformat(activity.startedAt))) \div 1000

-----------------------------------------------------------------------------
(* Aggregation (main.py 169-187).                                          *)

\* accumulated_durations is a dict: keys in insertion order, and a value
\* per key.
EmptyDict == [keys |-> <<>>, val |-> <<>>]

\* Accumulate with a fault: a repeated id is moved to the end of the keys.
MutAccumulateMoveToEnd(acc, activity_id, duration) ==
    IF activity_id \in Range(acc.keys)
        THEN [keys |-> Append(SelectSeq(acc.keys, LAMBDA k : k # activity_id),
                              activity_id),
              val |-> [acc.val EXCEPT ![activity_id] = @ + duration]]
        ELSE [keys |-> Append(acc.keys, activity_id),
              val |-> acc.val @@ (activity_id :> duration)]

\* Lines 177-180.
Accumulate(acc, activity_id, duration) ==
    IF activity_id \in Range(acc.keys)
        THEN [acc EXCEPT !.val[activity_id] = @ + duration]
        ELSE [keys |-> Append(acc.keys, activity_id),
              val |-> acc.val @@ (activity_id :> duration)]

\* Lines 170-180: the loop over the entries.
RECURSIVE accumulated_durations(_, _)
accumulated_durations(acc, entries) ==
    IF entries = <<>> THEN acc
    ELSE accumulated_durations(
             Accumulate(acc, Head(entries).activityId, EntryDuration(Head(entries))),
             Tail(entries))

\* Line 187: f"{int(total // 60)}h {int(total % 60)}m", the total in minutes.
TimeStr(seconds) ==
    ToString(seconds \div 3600) \o "h " \o ToString((seconds % 3600) \div 60) \o "m"

NoAggregation ==
    [err |-> "none", ids |-> <<>>, labels |-> <<>>, colors |-> <<>>,
     durations |-> <<>>, total |-> 0, total_time_str |-> ""]

\* Aggregate with a fault: ids missing from the catalog are left out.
MutAggregateSkipsUnknown(entries, activity_details) ==
    LET acc == accumulated_durations(EmptyDict, entries)
        keys == SelectSeq(acc.keys, LAMBDA k : k \in DOMAIN activity_details)
        n == Len(keys)
        durations == [i \in 1..n |-> acc.val[keys[i]]]
    IN  [err |-> "none",
         ids |-> keys,
         labels |-> [i \in 1..n |-> activity_details[keys[i]][1]],
         colors |-> [i \in 1..n |-> activity_details[keys[i]][2]],
         durations |-> durations,
         total |-> SumSeq(durations),
         total_time_str |-> TimeStr(SumSeq(durations))]

\* Lines 169-187: labels, colors, durations (aligned), their sum and its text;
\* activity_details[activity_id] raises KeyError for an id not in the catalog.
Aggregate(entries, activity_details) ==
    LET acc == accumulated_durations(EmptyDict, entries)
        n == Len(acc.keys)
        durations == [i \in 1..n |-> acc.val[acc.keys[i]]]
    IN  IF \E i \in 1..n : acc.keys[i] \notin DOMAIN activity_details
            THEN [NoAggregation EXCEPT !.err = "KeyError"]
            ELSE [err |-> "none",
                  ids |-> acc.keys,
                  labels |-> [i \in 1..n |-> activity_details[acc.keys[i]][1]],
                  colors |-> [i \in 1..n |-> activity_details[acc.keys[i]][2]],
                  durations |-> durations,
                  total |-> SumSeq(durations),
                  total_time_str |-> TimeStr(SumSeq(durations))]

-----------------------------------------------------------------------------
(* Note files (main.py 248-250, 262-281).                                  *)

Dates == {"2023-01-01", "2023-01-02"}

Heading == "# Timeular"
Newline == "\n"
Blank == " "
Other == "x"

\* Line 249.
image_filename(d) == d \o "-timeular.png"

ImageLinkText(d) == "![[" \o image_filename(d) \o "]]"

\* Line 250: the line f'![[{image_filename}]]\n'.
image_link(d) == <<ImageLinkText(d), Newline>>

Tokens == {Heading, Newline, Blank, Other} \cup {ImageLinkText(d) : d \in Dates}

Whitespace == {Newline, Blank}

\* file.readlines(): every line keeps its terminator; the last line has none
\* when the file does not end in a newline.
RECURSIVE SplitLines(_, _, _)
SplitLines(rest, cur, done) ==
    IF rest = <<>> THEN (IF cur = <<>> THEN done ELSE Append(done, cur))
    ELSE IF Head(rest) = Newline
        THEN SplitLines(Tail(rest), <<>>, Append(done, Append(cur, Newline)))
        ELSE SplitLines(Tail(rest), Append(cur, Head(rest)), done)

readlines(content) == SplitLines(content, <<>>, <<>>)

\* file.writelines(lines): the lines one after the other, nothing added.
RECURSIVE writelines(_)
writelines(lines) ==
    IF lines = <<>> THEN <<>> ELSE Head(lines) \o writelines(Tail(lines))

\* str.strip(): leading and trailing whitespace removed.
RECURSIVE lstrip(_)
lstrip(line) ==
    IF line # <<>> /\ Head(line) \in Whitespace THEN lstrip(Tail(line)) ELSE line

RECURSIVE rstrip(_)
rstrip(line) ==
    IF line # <<>> /\ line[Len(line)] \in Whitespace
        THEN rstrip(SubSeq(line, 1, Len(line) - 1))
        ELSE line

strip(line) == rstrip(lstrip(line))

\* Line 273: line.strip() == "# Timeular".
IsHeadingLine(line) == strip(line) = <<Heading>>

HeadingIndexes(content) == {i \in 1..Len(content) : IsHeadingLine(content[i])}

Min(S) == CHOOSE x \in S : \A y \in S : x <= y

\* list.insert(index, x) with 0 <= index <= len: x becomes element index
\* (0-based), the elements from there on move up by one.
ListInsert(content, index, x) ==
    SubSeq(content, 1, index) \o <<x>> \o SubSeq(content, index + 1, Len(content))

Paths == {"note", "archived", "image"}

VaultStates == {"unset", "empty", "set"}

Result(outcome, files, written) ==
    [outcome |-> outcome, fs |-> files, written |-> written]

Succeeded == {"Success", "Skipped"}

\* The Note Updater with a fault: without a heading the link is appended.
MutInsertAppendsWithoutHeading(v, d, files) ==
    IF v # "set" THEN Result("VaultNotSet", files, <<>>)
    ELSE IF files["note"] = Absent /\ files["archived"] = Absent
        THEN Result("NoteNotFound", files, <<>>)
    ELSE
        LET note_filename == IF files["note"] # Absent THEN "note" ELSE "archived"
            content == readlines(files[note_filename])
        IN  IF image_link(d) \in Range(content)
                THEN Result("Skipped", files, <<>>)
            ELSE IF HeadingIndexes(content) = {}
                THEN Result("Success",
                            [files EXCEPT ![note_filename] =
                                writelines(Append(content, image_link(d)))],
                            <<note_filename>>)
                ELSE Result("Success",
                            [files EXCEPT ![note_filename] =
                                writelines(ListInsert(content,
                                    Min(HeadingIndexes(content)), image_link(d)))],
                            <<note_filename>>)

\* The Note Updater with a fault: a missing note is created.
MutInsertCreatesMissingNote(v, d, files) ==
    IF v # "set" THEN Result("VaultNotSet", files, <<>>)
    ELSE IF files["note"] = Absent /\ files["archived"] = Absent
        THEN Result("Success",
                    [files EXCEPT !["note"] = <<Heading, Newline>> \o image_link(d)],
                    <<"note">>)
    ELSE
        LET note_filename == IF files["note"] # Absent THEN "note" ELSE "archived"
            content == readlines(files[note_filename])
        IN  IF image_link(d) \in Range(content)
                THEN Result("Skipped", files, <<>>)
            ELSE IF HeadingIndexes(content) = {}
                THEN Result("HeadingNotFound", files, <<>>)
            ELSE Result("Success",
                        [files EXCEPT ![note_filename] =
                            writelines(ListInsert(content,
                                Min(HeadingIndexes(content)), image_link(d)))],
                        <<note_filename>>)

\* Lines 234-281.  The outcome is "Success" (the link was inserted and the
\* file rewritten), "Skipped" (line 269), or the exception raised:
\* "VaultNotSet" (245), "NoteNotFound" (258), "HeadingNotFound" (277).
insert_image_into_obsidian_note(v, d, files) ==
    IF v # "set" THEN Result("VaultNotSet", files, <<>>)
    ELSE IF files["note"] = Absent /\ files["archived"] = Absent
        THEN Result("NoteNotFound", files, <<>>)
    ELSE
        LET note_filename == IF files["note"] # Absent THEN "note" ELSE "archived"
            content == readlines(files[note_filename])
        IN  IF image_link(d) \in Range(content)
                THEN Result("Skipped", files, <<>>)
            ELSE IF HeadingIndexes(content) = {}
                THEN Result("HeadingNotFound", files, <<>>)
            ELSE Result("Success",
                        [files EXCEPT ![note_filename] =
                            writelines(ListInsert(content,
                                Min(HeadingIndexes(content)), image_link(d)))],
                        <<note_filename>>)

-----------------------------------------------------------------------------
(* Inputs: what the Timeular API may return and what the vault may hold.   *)

Ts(day, h, m, frac) == [day |-> day, sec |-> h * 3600 + m * 60, frac |-> frac]

\* <<startedAt, stoppedAt>>: 30 min; 15 min and half a second, with a short
\* fraction; 10 min; 24 h 30 min; 15 min across midnight.
Intervals ==
    { <<Ts(0, 9, 0, <<0, 0, 0>>), Ts(0, 9, 30, <<0, 0, 0>>)>>,
      <<Ts(0, 10, 0, <<>>), Ts(0, 10, 15, <<5>>)>>,
      <<Ts(0, 11, 0, <<0, 0, 0>>), Ts(0, 11, 10, <<0, 0, 0>>)>>,
      <<Ts(0, 9, 0, <<0, 0, 0>>), Ts(1, 9, 30, <<0, 0, 0>>)>>,
      <<Ts(0, 23, 50, <<2, 5>>), Ts(1, 0, 5, <<2, 5, 0>>)>> }

RunIntervals ==
    { <<Ts(0, 9, 0, <<0, 0, 0>>), Ts(0, 9, 30, <<0, 0, 0>>)>>,
      <<Ts(0, 9, 0, <<0, 0, 0>>), Ts(1, 9, 30, <<0, 0, 0>>)>> }

ActivityIds == {"a1", "a2", "a3"}

Entry(id, interval) ==
    [activityId |-> id, startedAt |-> interval[1], stoppedAt |-> interval[2]]

Entries == {Entry(id, iv) : id \in ActivityIds, iv \in Intervals}

RunEntries == {Entry(id, iv) : id \in ActivityIds, iv \in RunIntervals}

FullCatalog ==
    [id \in ActivityIds |->
        CASE id = "a1" -> <<"Writing", "#ff0000">>
          [] id = "a2" -> <<"Reading", "#00ff00">>
          [] OTHER -> <<"Coding", "#0000ff">>]

Restrict(f, S) == [x \in S |-> f[x]]

Catalogs ==
    {Restrict(FullCatalog, S) : S \in {ActivityIds, {"a1", "a2"}, {"a2"}, {}}}

RunCatalogs == {FullCatalog, Restrict(FullCatalog, {"a1", "a2"})}

Contents == SeqsUpTo(Tokens, MaxFileLen)

RunNotes(d) ==
    {Absent, <<Heading, Newline>>, <<Heading>>, <<ImageLinkText(d), Newline>>,
     <<Other, Newline, Heading, Newline, Other>>}

OldImage == <<"png", "old">>

Files(note, archived, image) ==
    [p \in Paths |-> CASE p = "note" -> note
                       [] p = "archived" -> archived
                       [] OTHER -> image]

Idle ==
    /\ token = NoValue
    /\ agg = NoAggregation
    /\ err = "none"
    /\ exitCode = NoExit
    /\ log = <<>>
    /\ writes = <<>>
    /\ outcomes = <<>>

-----------------------------------------------------------------------------
(* The order of the calls of main() (296-300) and of                       *)
(* create_visualization_of_daily_activities (167, 169-187, 189-231).       *)

\* StageAfter with the two fetches exchanged.
MutStageAfterCatalogFirst(stage) ==
    CASE stage = "get_token" -> "fetch_details"
      [] stage = "fetch_details" -> "fetch_activities"
      [] stage = "fetch_activities" -> "aggregate"
      [] stage = "aggregate" -> "render"
      [] stage = "render" -> "insert_note"
      [] OTHER -> "return"

StageAfter(stage) ==
    CASE stage = "get_token" -> "fetch_activities"
      [] stage = "fetch_activities" -> "fetch_details"
      [] stage = "fetch_details" -> "aggregate"
      [] stage = "aggregate" -> "render"
      [] stage = "render" -> "insert_note"
      [] OTHER -> "return"

\* Raise with a fault: the exception is recorded and the run goes on.
MutRaiseContinues(e) == pc' = StageAfter(pc) /\ err' = e

\* An exception leaves the try block of main() (296-306): no further
\* statement of it runs.
Raise(e) == pc' = "except" /\ err' = e

-----------------------------------------------------------------------------
(* SpecAgg: the aggregation applied to an entry list and a catalog.        *)

InitAgg ==
    /\ Idle
    /\ pc = "aggregate"
    /\ date = "2023-01-01"
    /\ vault = "set"
    /\ fs = Files(Absent, Absent, Absent)
    /\ fs0 = fs
    /\ activities \in SeqsUpTo(Entries, MaxEntries)
    /\ details \in Catalogs

\* Lines 169-187 of create_visualization_of_daily_activities.
AggregateStage ==
    /\ pc = "aggregate"
    /\ log' = Append(log, "aggregate")
    /\ agg' = Aggregate(activities, details)
    /\ IF agg'.err = "none"
           THEN pc' = StageAfter("aggregate") /\ err' = err
           ELSE Raise(agg'.err)
    /\ UNCHANGED <<date, vault, fs, token, activities, details, exitCode,
                   writes, fs0, outcomes>>

NextAgg == AggregateStage

SpecAgg == InitAgg /\ [][NextAgg]_vars

-----------------------------------------------------------------------------
(* SpecNote: the Note Updater invoked up to MaxCalls times for one date.   *)

InitNote ==
    /\ Idle
    /\ pc = "insert_note"
    /\ date \in Dates
    /\ vault \in VaultStates
    /\ \/ \E c \in Contents \cup {Absent}, a \in {Absent, <<Heading, Newline>>} :
             fs = Files(c, a, Absent)
       \/ \E a \in Contents : fs = Files(Absent, a, Absent)
    /\ fs0 = fs
    /\ activities = <<>>
    /\ details = <<>>

\* One invocation of insert_image_into_obsidian_note(date), lines 234-281.
InvokeNoteUpdater ==
    /\ pc = "insert_note"
    /\ Len(outcomes) < MaxCalls
    /\ LET r == insert_image_into_obsidian_note(vault, date, fs)
       IN  /\ fs' = r.fs
           /\ writes' = writes \o r.written
           /\ outcomes' = Append(outcomes, [outcome |-> r.outcome, written |-> r.written])
    /\ fs0' = fs
    /\ log' = Append(log, "insert_note")
    /\ UNCHANGED <<pc, date, vault, token, activities, details, agg, err, exitCode>>

NextNote == InvokeNoteUpdater

SpecNote == InitNote /\ [][NextNote]_vars

-----------------------------------------------------------------------------
(* Spec: one run of main() (main.py 284-312).                              *)

Init ==
    /\ Idle
    /\ pc = "get_token"
    /\ date \in Dates
    /\ vault \in VaultStates
    /\ \E c \in RunNotes(date), a \in {Absent, <<Heading, Newline>>},
          img \in {Absent, OldImage} :
             fs = Files(c, a, img)
    /\ fs0 = fs
    /\ activities = <<>>
    /\ details = <<>>

\* Line 297, get_token (70-84): raise_for_status() raises on a bad status.
GetToken ==
    /\ pc = "get_token"
    /\ log' = Append(log, "get_token")
    /\ \E ok \in BOOLEAN :
          IF ok THEN token' = "token" /\ pc' = StageAfter("get_token") /\ err' = err
                ELSE token' = token /\ Raise("HTTPError")
    /\ UNCHANGED <<date, vault, fs, activities, details, agg, exitCode, writes,
                   fs0, outcomes>>

\* Line 298, fetch_activities (120-142): the day's time entries.
FetchActivities ==
    /\ pc = "fetch_activities"
    /\ log' = Append(log, "fetch_activities")
    /\ \/ \E entries \in SeqsUpTo(RunEntries, MaxRunEntries) :
             activities' = entries /\ pc' = StageAfter("fetch_activities") /\ err' = err
       \/ activities' = activities /\ Raise("HTTPError")
    /\ UNCHANGED <<date, vault, fs, token, details, agg, exitCode, writes, fs0,
                   outcomes>>

\* Line 167, fetch_activity_names_and_colors (102-117): the catalog.
FetchActivityNamesAndColors ==
    /\ pc = "fetch_details"
    /\ log' = Append(log, "fetch_details")
    /\ \/ \E catalog \in RunCatalogs :
             details' = catalog /\ pc' = StageAfter("fetch_details") /\ err' = err
       \/ details' = details /\ Raise("HTTPError")
    /\ UNCHANGED <<date, vault, fs, token, activities, agg, exitCode, writes, fs0,
                   outcomes>>

RenderOutcomes == {"ok", "plot_error", "save_error", "show_error"}

\* The saved figure: what is drawn, from the aggregation.
Figure(d, a) == <<"png", d, a.labels, a.colors, a.durations, a.total_time_str>>

\* Lines 189-231: the plot is drawn (189-225), the path is built from
\* OBSIDIAN_VAULT (228-229: os.path.join(None, ...) raises TypeError), the
\* figure is saved over any file at that path (230) and shown (231).
RenderResult(v, d, a, files, outcome) ==
    IF outcome = "plot_error"
        THEN [err |-> "RenderError", fs |-> files, written |-> <<>>]
    ELSE IF v = "unset"
        THEN [err |-> "TypeError", fs |-> files, written |-> <<>>]
    ELSE IF outcome = "save_error"
        THEN [err |-> "OSError", fs |-> files, written |-> <<>>]
    ELSE
        LET saved == [files EXCEPT !["image"] = Figure(d, a)]
        IN  IF outcome = "show_error"
                THEN [err |-> "RenderError", fs |-> saved, written |-> <<"image">>]
                ELSE [err |-> "none", fs |-> saved, written |-> <<"image">>]

Render ==
    /\ pc = "render"
    /\ log' = Append(log, "render")
    /\ \E outcome \in RenderOutcomes :
          LET r == RenderResult(vault, date, agg, fs, outcome)
          IN  /\ fs' = r.fs
              /\ writes' = writes \o r.written
              /\ IF r.err = "none" THEN pc' = StageAfter("render") /\ err' = err
                                   ELSE Raise(r.err)
    /\ UNCHANGED <<date, vault, token, activities, details, agg, exitCode, fs0,
                   outcomes>>

\* Line 300.
InsertNote ==
    /\ pc = "insert_note"
    /\ log' = Append(log, "insert_note")
    /\ LET r == insert_image_into_obsidian_note(vault, date, fs)
       IN  /\ fs' = r.fs
           /\ writes' = writes \o r.written
           /\ outcomes' = Append(outcomes, [outcome |-> r.outcome, written |-> r.written])
           /\ IF r.outcome \in Succeeded THEN pc' = StageAfter("insert_note") /\ err' = err
                                         ELSE Raise(r.outcome)
    /\ UNCHANGED <<date, vault, token, activities, details, agg, exitCode, fs0>>

\* Lines 301-306: the error is logged and raised again; the interpreter ends
\* with a traceback and status 1.
ExceptHandler ==
    /\ pc = "except"
    /\ pc' = "exited"
    /\ exitCode' = 1
    /\ UNCHANGED <<date, vault, fs, token, activities, details, agg, err, log,
                   writes, fs0, outcomes>>

\* Lines 308 and 312: return 0, sys.exit(0).
Return ==
    /\ pc = "return"
    /\ pc' = "exited"
    /\ exitCode' = 0
    /\ UNCHANGED <<date, vault, fs, token, activities, details, agg, err, log,
                   writes, fs0, outcomes>>

Next ==
    \/ GetToken
    \/ FetchActivities
    \/ FetchActivityNamesAndColors
    \/ AggregateStage
    \/ Render
    \/ InsertNote
    \/ ExceptHandler
    \/ Return

Spec == Init /\ [][Next]_vars

-----------------------------------------------------------------------------
(* Properties of the aggregation, checked under SpecAgg.                   *)

Aggregated == "aggregate" \in Range(log)

EntryIds == {activities[i].activityId : i \in 1..Len(activities)}

FirstIndex(id) == Min({i \in 1..Len(activities) : activities[i].activityId = id})

EntriesOf(id) == SelectSeq(activities, LAMBDA e : e.activityId = id)

RECURSIVE SumOver(_, _)
SumOver(Op(_), entries) ==
    IF entries = <<>> THEN 0 ELSE Op(Head(entries)) + SumOver(Op, Tail(entries))

\* The example of the specification: a1 09:00-09:30, a2 10:00-10:15 (and
\* half a second), a1 11:00-11:10.
ExampleEntries ==
    << Entry("a1", <<Ts(0, 9, 0, <<0, 0, 0>>), Ts(0, 9, 30, <<0, 0, 0>>)>>),
       Entry("a2", <<Ts(0, 10, 0, <<>>), Ts(0, 10, 15, <<5>>)>>),
       Entry("a1", <<Ts(0, 11, 0, <<0, 0, 0>>), Ts(0, 11, 10, <<0, 0, 0>>)>>) >>

\* C7: when every activityId of the entries is in the catalog, the
\* aggregation lists each distinct activityId exactly once, in the order of
\* its first occurrence in the entry list, and labels[i], colors[i] and
\* durations[i] are the name, the colour and the accumulated duration of
\* that same i-th activity.
C7_FirstSeenOrderAligned ==
    (Aggregated /\ EntryIds \subseteq DOMAIN details) =>
        /\ agg.err = "none"
        /\ Range(agg.ids) = EntryIds
        /\ Len(agg.ids) = Cardinality(EntryIds)
        /\ \A i, j \in 1..Len(agg.ids) :
              i < j => FirstIndex(agg.ids[i]) < FirstIndex(agg.ids[j])
        /\ Len(agg.labels) = Len(agg.ids)
        /\ Len(agg.colors) = Len(agg.ids)
        /\ Len(agg.durations) = Len(agg.ids)
        /\ \A i \in 1..Len(agg.ids) :
              /\ agg.labels[i] = details[agg.ids[i]][1]
              /\ agg.colors[i] = details[agg.ids[i]][2]
              /\ agg.durations[i] = SumOver(EntryDuration, EntriesOf(agg.ids[i]))

\* Entries for [a2, a1, a2] were aggregated to the labels [Reading, Writing].
C7_Witness ==
    /\ Aggregated
    /\ Len(activities) = 3
    /\ activities[1].activityId = "a2"
    /\ activities[2].activityId = "a1"
    /\ activities[3].activityId = "a2"
    /\ agg.labels = <<"Reading", "Writing">>

\* C8: the sum over the activities of the aggregated minutes, and the total,
\* equal the sum of the entries' elapsed minutes; the empty list gives empty
\* sequences and the total 0.
C8_Conservation ==
    (Aggregated /\ agg.err = "none") =>
        /\ SumSeq(agg.durations) = SumOver(ElapsedSeconds, activities)
        /\ agg.total = SumOver(ElapsedSeconds, activities)
        /\ activities = <<>> =>
              (agg.labels = <<>> /\ agg.colors = <<>> /\ agg.durations = <<>>
                  /\ agg.total = 0)

\* What does hold of the grouping: it conserves the per-entry durations as
\* line 175 computes them.
ConservationOfComputedDurations ==
    (Aggregated /\ agg.err = "none") =>
        /\ SumSeq(agg.durations) = SumOver(EntryDuration, activities)
        /\ agg.total = SumOver(EntryDuration, activities)

\* C10: the minutes every entry contributes to its activity's total are
\* (stoppedAt - startedAt) truncated to whole seconds and divided by 60,
\* whatever the distance between the timestamps; the example entries give
\* a1 = 40 min, a2 = 15 min and the total "0h 55m".
C10_ElapsedPerEntry ==
    (Aggregated /\ agg.err = "none") =>
        /\ \A i \in 1..Len(agg.ids) :
              agg.durations[i] = SumOver(ElapsedSeconds, EntriesOf(agg.ids[i]))
        /\ activities = ExampleEntries =>
              (agg.durations = <<40 * 60, 15 * 60>> /\ agg.total_time_str = "0h 55m")

\* The part of C10 that the code does satisfy: entries shorter than a day.
ElapsedPerEntryWithinADay ==
    (Aggregated /\ agg.err = "none"
        /\ \A i \in 1..Len(activities) : ElapsedSeconds(activities[i]) < SecondsPerDay) =>
        /\ \A i \in 1..Len(agg.ids) :
              agg.durations[i] = SumOver(ElapsedSeconds, EntriesOf(agg.ids[i]))
        /\ activities = ExampleEntries =>
              (agg.durations = <<40 * 60, 15 * 60>> /\ agg.total_time_str = "0h 55m")

ExampleAggregated == Aggregated /\ activities = ExampleEntries /\ agg.err = "none"

-----------------------------------------------------------------------------
(* Properties of the Note Updater, checked under SpecNote.                 *)

Invoked == Len(outcomes) >= 1

LastCall == outcomes[Len(outcomes)]

\* The note file an invocation on the files f reads: the dated note, or
\* else the archived one (lines 253-260).
Resolved(f) ==
    IF f["note"] # Absent THEN "note"
    ELSE IF f["archived"] # Absent THEN "archived"
    ELSE "none"

LinesBefore == readlines(fs0[Resolved(fs0)])

LinesAfter == readlines(fs[Resolved(fs0)])

Count(lines, line) == Cardinality({i \in 1..Len(lines) : lines[i] = line})

\* C1: when an invocation has succeeded, the next invocation for the same
\* date ends in Skipped, writes nothing and leaves every file as the first
\* left it; after an insertion the image-link line occurs exactly once.
C1_Idempotent ==
    (Len(outcomes) >= 2 /\ outcomes[Len(outcomes) - 1].outcome \in Succeeded) =>
        /\ LastCall.outcome = "Skipped"
        /\ LastCall.written = <<>>
        /\ fs = fs0
        /\ outcomes[Len(outcomes) - 1].outcome = "Success" =>
              Count(LinesAfter, image_link(date)) = 1

\* C2 as claimed: every resolved note with no "# Timeular" line ends the
\* Note Updater in the heading-not-found error, the file unchanged.
C2_MissingHeadingAlwaysFatal ==
    (Invoked /\ vault = "set" /\ Resolved(fs0) # "none"
        /\ HeadingIndexes(LinesBefore) = {}) =>
        /\ LastCall.outcome = "HeadingNotFound"
        /\ fs = fs0

\* C2 as amended: a resolved note with no "# Timeular" line in which the
\* image-link line does not occur yet ends the Note Updater in the
\* heading-not-found error; one in which it occurs ends it in Skipped; in
\* both cases nothing is written and every file is as before.
C2_MissingHeading ==
    (Invoked /\ vault = "set" /\ Resolved(fs0) # "none"
        /\ HeadingIndexes(LinesBefore) = {}) =>
        /\ LastCall.outcome =
              IF image_link(date) \in Range(LinesBefore)
                  THEN "Skipped" ELSE "HeadingNotFound"
        /\ LastCall.written = <<>>
        /\ fs = fs0

\* A note of some text and no heading ended the updater in the error.
C2_Witness ==
    /\ Invoked
    /\ vault = "set"
    /\ Resolved(fs0) # "none"
    /\ LinesBefore # <<>>
    /\ HeadingIndexes(LinesBefore) = {}
    /\ LastCall.outcome = "HeadingNotFound"
    /\ fs = fs0

\* C9: when no line of the note is the image link and some line is the
\* heading, the Note Updater leaves the note with its original lines, each
\* unchanged and in order, and exactly one new line, the image link, right
\* after the first heading line; no other file changes.
C9_InsertAfterFirstHeading ==
    (Invoked /\ vault = "set" /\ Resolved(fs0) # "none"
        /\ (\A i \in 1..Len(LinesBefore) :
                strip(LinesBefore[i]) # <<ImageLinkText(date)>>)
        /\ HeadingIndexes(LinesBefore) # {}) =>
        /\ LastCall.outcome = "Success"
        /\ LinesAfter =
              ListInsert(LinesBefore, Min(HeadingIndexes(LinesBefore)), image_link(date))
        /\ \A p \in Paths \ {Resolved(fs0)} : fs[p] = fs0[p]

\* What does hold: the same, for notes whose first heading line ends in a
\* newline.
InsertAfterTerminatedHeading ==
    (Invoked /\ vault = "set" /\ Resolved(fs0) # "none"
        /\ image_link(date) \notin Range(LinesBefore)
        /\ HeadingIndexes(LinesBefore) # {}
        /\ LET h == LinesBefore[Min(HeadingIndexes(LinesBefore))]
           IN  h[Len(h)] = Newline) =>
        /\ LastCall.outcome = "Success"
        /\ LinesAfter =
              ListInsert(LinesBefore, Min(HeadingIndexes(LinesBefore)), image_link(date))
        /\ \A p \in Paths \ {Resolved(fs0)} : fs[p] = fs0[p]

-----------------------------------------------------------------------------
(* Properties of a run of main(), checked under Spec.                      *)

IsPrefix(s, t) == Len(s) <= Len(t) /\ s = SubSeq(t, 1, Len(s))

Failed == err # "none"

FailedStage == log[Len(log)]

NoteUpdaterReached == "insert_note" \in Range(log)

NeitherNoteExists(f) == f["note"] = Absent /\ f["archived"] = Absent

\* C3 as claimed: when neither note file exists, the run that reaches the
\* Note Updater fails with the note-not-found error, having attempted no
\* write to any file.
C3_MissingNoteBeforeAnyWrite ==
    (NoteUpdaterReached /\ vault = "set" /\ NeitherNoteExists(fs0)) =>
        /\ err = "NoteNotFound"
        /\ writes = <<>>

\* C3 as amended: when neither note file exists, the run that reaches the
\* Note Updater fails with the note-not-found error and a non-zero status,
\* having attempted no write to a note file: neither path exists afterwards
\* either.  The one write of the run is the renderer's, of the image file.
C3_MissingNote ==
    (NoteUpdaterReached /\ vault = "set" /\ NeitherNoteExists(fs0)) =>
        /\ err = "NoteNotFound"
        /\ FailedStage = "insert_note"
        /\ writes = <<"image">>
        /\ NeitherNoteExists(fs)
        /\ fs["image"] = Figure(date, agg)
        /\ pc \in {"except", "exited"}
        /\ pc = "exited" => exitCode = 1

\* A run ended by the note-not-found error, the image written before it.
C3_Witness ==
    /\ pc = "exited"
    /\ err = "NoteNotFound"
    /\ NeitherNoteExists(fs0)
    /\ writes = <<"image">>
    /\ exitCode = 1

UnknownActivityId ==
    \E i \in 1..Len(activities) : activities[i].activityId \notin DOMAIN details

\* C4: when a fetched entry's activityId is not a key of the fetched
\* catalog, the run fails with the lookup error in the aggregation: the
\* rendering never starts, no file is written, the image and note files are
\* as before the run, and the status is not zero.
C4_UnknownActivityIdIsFatal ==
    (Aggregated /\ UnknownActivityId) =>
        /\ err = "KeyError"
        /\ FailedStage = "aggregate"
        /\ "render" \notin Range(log)
        /\ writes = <<>>
        /\ fs = fs0
        /\ pc \in {"except", "exited"}
        /\ pc = "exited" => exitCode = 1

\* A run with an entry for a3 and a catalog without a3 ended by KeyError.
C4_Witness ==
    /\ pc = "exited"
    /\ UnknownActivityId
    /\ err = "KeyError"
    /\ exitCode = 1
    /\ fs = fs0

\* C5 as claimed: sign-in, then the catalog, then the time entries, then
\* aggregate, render, update the note.
C5_CatalogBeforeEntries ==
    IsPrefix(log, <<"get_token", "fetch_details", "fetch_activities", "aggregate",
                    "render", "insert_note">>)

\* C5 as amended: the stages run in the order sign-in, fetch the time
\* entries, fetch the catalog, aggregate, render and save, update the note;
\* the stage to run next is the successor of the last one started, which
\* has completed.
C5_StageOrder ==
    LET order == <<"get_token", "fetch_activities", "fetch_details", "aggregate",
                   "render", "insert_note">>
    IN  /\ IsPrefix(log, order)
        /\ (~Failed /\ pc # "exited") =>
              pc = IF Len(log) < Len(order) THEN order[Len(log) + 1] ELSE "return"

\* A run in which the six stages ran and main() returned 0.
C5_Witness ==
    /\ pc = "exited"
    /\ exitCode = 0
    /\ Len(log) = 6
    /\ log[2] = "fetch_activities"
    /\ log[3] = "fetch_details"

FailStopInv ==
    /\ Failed => pc \in {"except", "exited"}
    /\ (Failed /\ pc = "exited") => exitCode = 1
    /\ Len(log) = Cardinality(Range(log))
    /\ (Failed /\ FailedStage \in {"get_token", "fetch_activities", "fetch_details",
                                   "aggregate"}) =>
          (writes = <<>> /\ fs = fs0)
    /\ (Failed /\ FailedStage = "render") =>
          (Range(writes) \subseteq {"image"} /\ fs["note"] = fs0["note"]
              /\ fs["archived"] = fs0["archived"])
    /\ exitCode = 0 =>
          /\ ~Failed
          /\ Len(log) = 6
          /\ outcomes # <<>>
          /\ LastCall.outcome \in Succeeded

FailStopStep ==
    Failed => (log' = log /\ writes' = writes /\ fs' = fs /\ err' = err
                  /\ token' = token /\ activities' = activities
                  /\ details' = details /\ agg' = agg)

\* C6: once a stage has failed, no stage runs (none later, none again), no
\* file is written, and the run ends with a non-zero status; no image is
\* saved after a failed sign-in, fetch or aggregation and no note is written
\* after a failed rendering; the status is 0 only when the six stages ran
\* and none failed.
C6_FailStop == []FailStopInv /\ [][FailStopStep]_vars

\* A run ended by a failed rendering that had saved the image: no note write.
C6_Witness ==
    /\ pc = "exited"
    /\ err = "RenderError"
    /\ writes = <<"image">>
    /\ fs["note"] # Absent
    /\ HeadingIndexes(readlines(fs["note"])) # {}
    /\ fs["note"] = fs0["note"]
    /\ exitCode = 1

=============================================================================
